---- MODULE Spec2Model ----
(***************************************************************************)
(* SmartRecover: the bulk processor of risk_service (BulkProcessor), its   *)
(* scorer (RiskScorer) and its messenger (SQSMessenger).                   *)
(*                                                                         *)
(* Amounts are whole currency units and scores are the integer weighted    *)
(* sums the scorer produces, so a priority (score * debt) is an integer.   *)
(***************************************************************************)
EXTENDS Integers, Sequences, FiniteSets, TLC

(* ---------------- bounds of the model ---------------- *)
MaxDebtors == 3
MaxDebt == 2
MaxBatchSize == 2
MaxRuns == 2
MaxIncome == 2
MaxLate == 7
MaxBalance == 3
MaxRecords == 2

(* ---------------- inputs ---------------- *)
\* RiskScore.DoesNotExist: the account has no RiskScore row (scores are >= 45)
NoScore == 0 - 1
\* a RiskScore row written by an earlier scoring of the account
StaleScore == 200
\* batch sizes a caller can pass to the constructor (no value is rejected)
BatchSizes == (0 - 1)..MaxBatchSize
\* the threshold a caller passes: the fresh priority of an account of debt 1
\* (score 162) equals it, that of an account of larger debt exceeds it
Thresholds == {162}
\* the per-account outcomes of process_batch's try block.  The Debtor model
\* declares no payment_status field, so on a Debtor as declared the result
\* dict cannot be built (result_fail); ok is the outcome on an instance that
\* carries the attribute
Outcomes == {"ok", "fetch_fail", "score_fail", "result_fail"}

DebtorRows ==
  [total_debt_amount : 1..MaxDebt,
   monthly_income : {1},
   late_payments_count : {0},
   employment_status : {"UNLISTED"},
   contract_type : {"UNLISTED"},
   industry_sector : {"UNLISTED"},
   family_situation : {"UNLISTED"}]

VARIABLES
  pc,                       \* "new", "idle", "batching", "done", "called",
                            \* "aborted"
  batch_size,               \* self.batch_size
  high_priority_threshold,  \* self.high_priority_threshold
  messenger,                \* TRUE iff self.messenger is not None
  debtors,                  \* the Debtor table: id -> row
  risk_scores,              \* the RiskScore table: the set of its rows
  score_results,            \* id -> what the last calculate_risk_score call on
                            \* the account returned
  stats,                    \* self.stats
  priority_queue,           \* the heap of process_all_debtors
  built,                    \* the heap as build_priority_queue returned it
  all_results,              \* all_results of process_all_debtors
  batch_results,            \* the value the last process_batch returned
  batch_number,             \* batch_number of process_all_debtors
  notifier_calls,           \* the calls the messenger has received
  report,                   \* the value process_all_debtors returned
  runs,                     \* process_all_debtors calls made on the processor
  stats_at_start,           \* history: self.stats when the current run began
  last_call,                \* the last direct call of a scorer, messenger or
                            \* reconciliation function: its arguments and
                            \* what it returned
  sync_records              \* the PartnerSyncRecord table: the set of its rows

\* the processor, its run and the two tables
run_vars == <<pc, batch_size, high_priority_threshold, messenger, debtors,
              risk_scores, score_results, stats, priority_queue, built,
              all_results, batch_results, batch_number, notifier_calls, report,
              runs, stats_at_start>>

\* the direct calls and the partner sync table
call_vars == <<last_call, sync_records>>

vars == <<run_vars, call_vars>>

Min(a, b) == IF a < b THEN a ELSE b

(* ---------------- RiskScorer ---------------- *)
FACTOR_WEIGHTS ==
  [debt_ratio |-> 9, payment_history |-> 9, employment_status |-> 8,
   contract_type |-> 7, industry_sector |-> 6, family_situation |-> 6]

\* mutant: the ratio limits are exclusive
normalize_debt_ratio_exclusive(d) ==
  IF d.monthly_income <= 0 THEN 10
  ELSE IF d.total_debt_amount < 1 * d.monthly_income THEN 2
  ELSE IF d.total_debt_amount < 3 * d.monthly_income THEN 5
  ELSE IF d.total_debt_amount < 6 * d.monthly_income THEN 7
  ELSE 10

\* ratio = debt / income compared with 1.0, 3.0, 6.0 (income > 0 there)
normalize_debt_ratio(d) ==
  IF d.monthly_income <= 0 THEN 10
  ELSE IF d.total_debt_amount <= 1 * d.monthly_income THEN 2
  ELSE IF d.total_debt_amount <= 3 * d.monthly_income THEN 5
  ELSE IF d.total_debt_amount <= 6 * d.monthly_income THEN 7
  ELSE 10

\* mutant: the limits 2 and 5 are exclusive
normalize_payment_history_exclusive(d) ==
  IF d.late_payments_count = 0 THEN 1
  ELSE IF d.late_payments_count < 2 THEN 4
  ELSE IF d.late_payments_count < 5 THEN 7
  ELSE 10

\* late_count against 0, 2 and 5
normalize_payment_history(d) ==
  IF d.late_payments_count = 0 THEN 1
  ELSE IF d.late_payments_count <= 2 THEN 4
  ELSE IF d.late_payments_count <= 5 THEN 7
  ELSE 10

\* the four lookups are dict.get(category, 5); the tables are not listed here,
\* a category outside the table takes the default
DefaultRisk == 5
get_employment_risk(d) == DefaultRisk
get_contract_risk(d) == DefaultRisk
get_industry_risk(d) == DefaultRisk
get_family_risk(d) == DefaultRisk

normalized_scores(d) ==
  [debt_ratio |-> normalize_debt_ratio(d),
   payment_history |-> normalize_payment_history(d),
   employment_status |-> get_employment_risk(d),
   contract_type |-> get_contract_risk(d),
   industry_sector |-> get_industry_risk(d),
   family_situation |-> get_family_risk(d)]

\* mutant: the factor scores are added up without their weights
weighted_score_unweighted(d) ==
  LET n == normalized_scores(d) IN
    n.debt_ratio + n.payment_history + n.employment_status
    + n.contract_type + n.industry_sector + n.family_situation

\* weighted_score of calculate_risk_score
weighted_score(d) ==
  LET n == normalized_scores(d) IN
    n.debt_ratio * FACTOR_WEIGHTS.debt_ratio
    + n.payment_history * FACTOR_WEIGHTS.payment_history
    + n.employment_status * FACTOR_WEIGHTS.employment_status
    + n.contract_type * FACTOR_WEIGHTS.contract_type
    + n.industry_sector * FACTOR_WEIGHTS.industry_sector
    + n.family_situation * FACTOR_WEIGHTS.family_situation

\* get_risk_level: the percentage of the theoretical maximum against 30, 60
\* and 80.  (weighted_score / max) * 100 in doubles orders every integer
\* score 0..450 against the three limits as the exact quotient does.
max_possible_score ==
  10 * FACTOR_WEIGHTS.debt_ratio + 10 * FACTOR_WEIGHTS.payment_history
  + 10 * FACTOR_WEIGHTS.employment_status + 10 * FACTOR_WEIGHTS.contract_type
  + 10 * FACTOR_WEIGHTS.industry_sector + 10 * FACTOR_WEIGHTS.family_situation

\* mutant: the percentage limits are exclusive
get_risk_level_exclusive(w) ==
  IF w * 100 < 30 * max_possible_score THEN "LOW"
  ELSE IF w * 100 < 60 * max_possible_score THEN "MEDIUM"
  ELSE IF w * 100 < 80 * max_possible_score THEN "HIGH"
  ELSE "CRITICAL"

get_risk_level(w) ==
  IF w * 100 <= 30 * max_possible_score THEN "LOW"
  ELSE IF w * 100 <= 60 * max_possible_score THEN "MEDIUM"
  ELSE IF w * 100 <= 80 * max_possible_score THEN "HIGH"
  ELSE "CRITICAL"

(* ---------------- the RiskScore table ---------------- *)
\* the rows of account id (RiskScore.debtor is a OneToOneField)
RowsOf(rs, id) == {r \in rs : r.debtor_id = id}

\* debtor.risk_score.total_score, NoScore standing for RiskScore.DoesNotExist
StoredScore(rs, id) ==
  IF RowsOf(rs, id) = {} THEN NoScore
  ELSE (CHOOSE r \in RowsOf(rs, id) : TRUE).total_score

\* mutant: a row is inserted whether or not the account has one
update_or_create_always_creates(rs, id, defaults) ==
  [table |-> rs \cup {[debtor_id |-> id, total_score |-> defaults.total_score,
                       risk_level |-> defaults.risk_level,
                       factor_breakdown |-> defaults.factor_breakdown]},
   created |-> TRUE]

\* RiskScore.objects.update_or_create(debtor=..., defaults=...): the row of the
\* account gets the defaults, or a row is created when there is none
update_or_create(rs, id, defaults) ==
  LET row == [debtor_id |-> id, total_score |-> defaults.total_score,
              risk_level |-> defaults.risk_level,
              factor_breakdown |-> defaults.factor_breakdown]
  IN IF RowsOf(rs, id) = {}
     THEN [table |-> rs \cup {row}, created |-> TRUE]
     ELSE [table |-> {IF r.debtor_id = id THEN row ELSE r : r \in rs},
           created |-> FALSE]

\* mutant: the upsert writes the new total_score into every RiskScore row
score_and_store_every_row(id, rs, n, w, level) ==
  LET up == update_or_create(rs, id,
              [total_score |-> w, risk_level |-> level, factor_breakdown |-> n])
  IN [table |-> {[r EXCEPT !.total_score = w] : r \in up.table},
      result |-> [called |-> TRUE, total_score |-> w, normalized_scores |-> n,
                  risk_level |-> level, created |-> up.created]]

\* the upsert and the return of calculate_risk_score, from the normalized
\* scores n, the weighted score w and its level
score_and_store(id, rs, n, w, level) ==
  LET up == update_or_create(rs, id,
              [total_score |-> w, risk_level |-> level, factor_breakdown |-> n])
  IN [table |-> up.table,
      result |-> [called |-> TRUE, total_score |-> w, normalized_scores |-> n,
                  risk_level |-> level, created |-> up.created]]

\* mutant: an account that has a stored score is not scored again
calculate_risk_score_cached(id, d, rs) ==
  IF RowsOf(rs, id) = {}
  THEN score_and_store(id, rs, normalized_scores(d), weighted_score(d),
                       get_risk_level(weighted_score(d)))
  ELSE [table |-> rs,
        result |-> [called |-> TRUE, total_score |-> StoredScore(rs, id),
                    normalized_scores |->
                      (CHOOSE r \in RowsOf(rs, id) : TRUE).factor_breakdown,
                    risk_level |->
                      (CHOOSE r \in RowsOf(rs, id) : TRUE).risk_level,
                    created |-> FALSE]]

\* calculate_risk_score(debtor) for account id with attributes d: the table
\* after the upsert and the dict returned
calculate_risk_score(id, d, rs) ==
  score_and_store(id, rs, normalized_scores(d), weighted_score(d),
                  get_risk_level(weighted_score(d)))

\* no calculate_risk_score call on the account has returned yet
NoResult ==
  [called |-> FALSE, total_score |-> NoScore,
   normalized_scores |-> [debt_ratio |-> 0, payment_history |-> 0,
                          employment_status |-> 0, contract_type |-> 0,
                          industry_sector |-> 0, family_situation |-> 0],
   risk_level |-> "NONE", created |-> FALSE]

\* the row an earlier scoring left for account id, under other attributes
StaleRow(id) ==
  [debtor_id |-> id, total_score |-> StaleScore,
   risk_level |-> get_risk_level(StaleScore),
   factor_breakdown |-> [debt_ratio |-> 2, payment_history |-> 4,
                         employment_status |-> 4, contract_type |-> 6,
                         industry_sector |-> 6, family_situation |-> 6]]

(* ---------------- heapq on (neg_priority, debtor_id) tuples ---------------- *)
\* Python's tuple order
Less(a, b) == a[1] < b[1] \/ (a[1] = b[1] /\ a[2] < b[2])

At(h, pos) == h[pos + 1]
Put(h, pos, x) == [h EXCEPT ![pos + 1] = x]

RECURSIVE SiftDownLoop(_, _, _, _)
SiftDownLoop(h, startpos, pos, newitem) ==
  IF pos > startpos
  THEN LET parentpos == (pos - 1) \div 2
           parent == At(h, parentpos)
       IN IF Less(newitem, parent)
          THEN SiftDownLoop(Put(h, pos, parent), startpos, parentpos, newitem)
          ELSE Put(h, pos, newitem)
  ELSE Put(h, pos, newitem)

\* heapq._siftdown
SiftDown(h, startpos, pos) == SiftDownLoop(h, startpos, pos, At(h, pos))

RECURSIVE SiftUpLoop(_, _, _, _)
SiftUpLoop(h, startpos, pos, newitem) ==
  LET endpos == Len(h)
      childpos == 2 * pos + 1
  IN IF childpos < endpos
     THEN LET rightpos == childpos + 1
              c == IF rightpos < endpos
                      /\ ~Less(At(h, childpos), At(h, rightpos))
                   THEN rightpos ELSE childpos
          IN SiftUpLoop(Put(h, pos, At(h, c)), startpos, c, newitem)
     ELSE SiftDown(Put(h, pos, newitem), startpos, pos)

\* heapq._siftup
SiftUp(h, pos) == SiftUpLoop(h, pos, pos, At(h, pos))

RECURSIVE HeapifyFrom(_, _)
HeapifyFrom(h, i) == IF i < 0 THEN h ELSE HeapifyFrom(SiftUp(h, i), i - 1)

\* mutant: the tuples are returned without heapq.heapify
HeapifySkipped(h) == h

\* heapq.heapify
Heapify(h) == HeapifyFrom(h, (Len(h) \div 2) - 1)

\* mutant: the root is returned but the last entry is dropped in its place
HeapPopKeepsRoot(h) ==
  [item |-> h[1], heap |-> SubSeq(h, 1, Len(h) - 1)]

\* heapq.heappop on a non-empty heap: the item returned and the heap left
HeapPop(h) ==
  LET lastelt == h[Len(h)]
      rest == SubSeq(h, 1, Len(h) - 1)
  IN IF rest # <<>>
     THEN [item |-> rest[1], heap |-> SiftUp(Put(rest, 0, lastelt), 0)]
     ELSE [item |-> lastelt, heap |-> rest]

(* ---------------- BulkProcessor ---------------- *)
\* self.stats as __init__ builds it; the two messenger counters are read with
\* stats.get(key, 0) and created at 0, so an absent key is the value 0
InitialStats ==
  [total_processed |-> 0, high_priority_count |-> 0, errors |-> <<>>,
   messages_sent |-> 0, total_messaged_debtors |-> 0]

\* mutant: the record is inserted at the head of the list
record_error_prepend(st, debtor_id, stage) ==
  [st EXCEPT !.errors = <<[debtor_id |-> debtor_id, stage |-> stage]>> \o @]

\* _record_error: append one record to stats["errors"]
record_error(st, debtor_id, stage) ==
  [st EXCEPT !.errors = Append(@, [debtor_id |-> debtor_id, stage |-> stage])]

\* mutant: only total_processed is counted
update_processing_stats_total_only(st, priority) ==
  [st EXCEPT !.total_processed = @ + 1]

\* _update_processing_stats
update_processing_stats(st, priority) ==
  [st EXCEPT !.total_processed = @ + 1,
             !.high_priority_count =
                IF priority > high_priority_threshold THEN @ + 1 ELSE @]

\* the entry _build_priority_tuples appends for an account
PriorityTuple(priority, debtor_id) == <<0 - priority, debtor_id>>

\* mutant: the account is scored whether or not it has a stored score
priority_from_rescoring(id, rs, stored, c) ==
  [priority |-> c.result.total_score * debtors[id].total_debt_amount,
   scores |-> c.table,
   scored |-> TRUE,
   result |-> c.result]

\* mutant: the score computed on demand is used but its RiskScore is not kept
priority_from_without_store(id, rs, stored, c) ==
  LET risk_score == IF stored # NoScore THEN stored ELSE c.result.total_score
  IN [priority |-> risk_score * debtors[id].total_debt_amount,
      scores |-> rs,
      scored |-> stored = NoScore,
      result |-> c.result]

\* the priority from the stored score when there is one, else from a score
\* computed and stored on demand: stored is debtor.risk_score.total_score, c
\* the scorer's call made when there is none
priority_from(id, rs, stored, c) ==
  LET risk_score == IF stored # NoScore THEN stored ELSE c.result.total_score
  IN [priority |-> risk_score * debtors[id].total_debt_amount,
      scores |-> IF stored # NoScore THEN rs ELSE c.table,
      scored |-> stored = NoScore,
      result |-> c.result]

\* calculate_priority for account id over the RiskScore table rs
calculate_priority(id, rs) ==
  priority_from(id, rs, StoredScore(rs, id),
                calculate_risk_score(id, debtors[id], rs))

\* mutant: the tuple of an account is appended twice
append_tuple_twice(acc, i, c) ==
  [acc EXCEPT !.tuples = Append(Append(@, PriorityTuple(c.priority, i)),
                                PriorityTuple(c.priority, i)),
              !.scores = c.scores,
              !.returned[i] = IF c.scored THEN c.result ELSE @]

\* priority_tuples.append((-priority, debtor.id)) with c what
\* calculate_priority did for account i
append_tuple(acc, i, c) ==
  [acc EXCEPT !.tuples = Append(@, PriorityTuple(c.priority, i)),
              !.scores = c.scores,
              !.returned[i] = IF c.scored THEN c.result ELSE @]

\* mutant: the first failure ends the build
RECURSIVE build_priority_tuples_aborting(_, _, _, _)
build_priority_tuples_aborting(i, k, fails, acc) ==
  IF i > k THEN acc
  ELSE IF i \in fails
       THEN [acc EXCEPT !.stats = record_error(@, i, "priority_calculation")]
       ELSE build_priority_tuples_aborting(i + 1, k, fails,
              append_tuple(acc, i, calculate_priority(i, acc.scores)))

\* mutant: a failing priority calculation is skipped without a ledger record
RECURSIVE build_priority_tuples_silent(_, _, _, _)
build_priority_tuples_silent(i, k, fails, acc) ==
  IF i > k THEN acc
  ELSE IF i \in fails
       THEN build_priority_tuples_silent(i + 1, k, fails, acc)
       ELSE build_priority_tuples_silent(i + 1, k, fails,
              append_tuple(acc, i, calculate_priority(i, acc.scores)))

\* _build_priority_tuples over the accounts i..k in id order; fails is the set
\* of accounts whose calculate_priority raises
RECURSIVE build_priority_tuples(_, _, _, _)
build_priority_tuples(i, k, fails, acc) ==
  IF i > k THEN acc
  ELSE IF i \in fails
       THEN build_priority_tuples(i + 1, k, fails,
              [acc EXCEPT !.stats = record_error(@, i, "priority_calculation")])
       ELSE build_priority_tuples(i + 1, k, fails,
              append_tuple(acc, i, calculate_priority(i, acc.scores)))

\* build_priority_queue: the tuples, heapified
build_priority_queue(fails) ==
  [build_priority_tuples(1, Len(debtors), fails,
     [tuples |-> <<>>, scores |-> risk_scores, stats |-> stats,
      returned |-> score_results])
   EXCEPT !.tuples = Heapify(@)]

\* mutant: the priority of the heap entry is reported
SuccessResultHeapTime(id, fresh, fresh_priority) ==
  [debtor_id |-> id, status |-> "success",
   priority_score |->
     0 - built[CHOOSE i \in DOMAIN built : built[i][2] = id][1],
   risk_score |-> fresh, debt_amount |-> debtors[id].total_debt_amount]

\* the dict _process_single_debtor returns
SuccessResult(id, fresh, fresh_priority) ==
  [debtor_id |-> id, status |-> "success", priority_score |-> fresh_priority,
   risk_score |-> fresh, debt_amount |-> debtors[id].total_debt_amount]

\* _create_error_result
create_error_result(id, priority) ==
  [debtor_id |-> id, status |-> "error", priority_score |-> priority]

\* process_batch's local name debtor before the first fetch of the call
Unbound == [bound |-> FALSE, id |-> 0, cached |-> NoScore]

\* best_priority of the except handler, from the binding of debtor
best_priority(debtor, heap_priority_snapshot) ==
  IF debtor.bound /\ debtor.cached # NoScore
  THEN debtor.cached * debtors[debtor.id].total_debt_amount
  ELSE heap_priority_snapshot

\* the end of an iteration: the result appended, in the try block or in the
\* except handler; st1 is the statistics after _process_single_debtor
append_result(acc, oc, heap, debtor_id, snapshot, debtor, scored, score_result, st1) ==
  LET fresh == score_result.result.total_score
      scores == IF scored THEN score_result.table ELSE acc.scores
      returned == IF scored
                  THEN [acc.returned EXCEPT ![debtor_id] = score_result.result]
                  ELSE acc.returned
  IN IF oc = "ok"
     THEN [heap |-> heap, debtor |-> debtor, scores |-> scores, stats |-> st1,
           returned |-> returned,
           results |->
             Append(acc.results,
                    SuccessResult(debtor_id, fresh,
                                  fresh * debtors[debtor_id].total_debt_amount))]
     ELSE [heap |-> heap, debtor |-> debtor, scores |-> scores,
           returned |-> returned,
           stats |-> record_error(st1, debtor_id, "debtor_processing"),
           results |->
             Append(acc.results,
                    create_error_result(debtor_id,
                                        best_priority(debtor, snapshot)))]

\* the try block for the popped entry: cached is the stored score the fetch
\* would read, score_result what calculate_risk_score would do.  oc is what
\* the try block does:
\*   fetch_fail   Debtor.objects.get raises, debtor keeps its previous binding
\*   score_fail   calculate_risk_score raises before its upsert
\*   result_fail  the score is stored and the statistics are updated, then
\*                building the result dict raises (debtor.payment_status)
\*   ok           a success result is appended
\* debtor.risk_score is the row select_related cached at the fetch; a row the
\* upsert creates is attached to the instance, a row it updates is not.
process_entry(acc, oc, heap, debtor_id, snapshot, cached, score_result) ==
  LET scored == oc \in {"ok", "result_fail"}
      fresh == score_result.result.total_score
  IN append_result(acc, oc, heap, debtor_id, snapshot,
       IF oc = "fetch_fail" THEN acc.debtor
       ELSE [bound |-> TRUE, id |-> debtor_id,
             cached |-> IF scored /\ cached = NoScore THEN fresh ELSE cached],
       scored, score_result,
       IF scored
       THEN update_processing_stats(acc.stats,
              fresh * debtors[debtor_id].total_debt_amount)
       ELSE acc.stats)

\* the entry p popped: (neg_priority, debtor_id) unpacked
process_popped(acc, oc, p) ==
  process_entry(acc, oc, p.heap, p.item[2], 0 - p.item[1],
                StoredScore(acc.scores, p.item[2]),
                calculate_risk_score(p.item[2], debtors[p.item[2]], acc.scores))

\* one iteration: heappop, then the try block
process_one(acc, oc) == process_popped(acc, oc, HeapPop(acc.heap))

\* mutant: the whole queue is processed in one call
BatchCountWholeQueue(size, queue) == Len(queue)

\* the number of iterations range(min(batch_size, len(priority_queue))) makes
BatchCount(size, queue) ==
  LET m == Min(size, Len(queue)) IN IF m < 0 THEN 0 ELSE m

\* mutant: the loop ends after the first account that failed
RECURSIVE process_loop_aborting(_, _, _)
process_loop_aborting(acc, ocs, i) ==
  IF i > Len(ocs) \/ acc.heap = <<>> \/ (i > 1 /\ ocs[i - 1] # "ok") THEN acc
  ELSE process_loop_aborting(process_one(acc, ocs[i]), ocs, i + 1)

\* the loop of process_batch over the outcomes ocs, from iteration i
RECURSIVE process_loop(_, _, _)
process_loop(acc, ocs, i) ==
  IF i > Len(ocs) \/ acc.heap = <<>> THEN acc
  ELSE process_loop(process_one(acc, ocs[i]), ocs, i + 1)

\* mutant: the threshold itself counts as high priority
HighPriorityResultsInclusive(results) ==
  LET high(r) == r.status = "success"
                 /\ r.priority_score >= high_priority_threshold
  IN SelectSeq(results, high)

\* the filter of _notify_high_priority_debtors
HighPriorityResults(results) ==
  LET high(r) == r.status = "success"
                 /\ r.priority_score > high_priority_threshold
  IN SelectSeq(results, high)

(* ---------------- SQSMessenger ---------------- *)
\* result.get("debtor_id") is None
NoDebtorId == 0 - 1

\* the results create_payload keeps: those with a debtor_id
WithDebtorId(results) ==
  SelectSeq(results, LAMBDA r : r.debtor_id # NoDebtorId)

\* the payload items of the results kept
PayloadItems(kept) ==
  [i \in 1..Len(kept) |->
     [debtor_id |-> kept[i].debtor_id,
      internal_balance |-> kept[i].debt_amount]]

\* create_payload: one item per result that carries a debtor_id
create_payload(results) == PayloadItems(WithDebtorId(results))

\* mutant: an empty list is transmitted like any other
send_high_priority_batch_unguarded(results) ==
  [input |-> results, payload |-> create_payload(results),
   count |-> Len(results), sent |-> TRUE]

\* send_high_priority_batch: the call as the messenger sees it, the payload
\* handed to send_to_sqs (sent tells whether it was called) and the count
\* returned
send_high_priority_batch(results) ==
  IF Len(results) = 0
  THEN [input |-> results, payload |-> <<>>, count |-> 0, sent |-> FALSE]
  ELSE [input |-> results, payload |-> create_payload(results),
        count |-> Len(results), sent |-> TRUE]

\* mutant: the messenger is called even when nothing qualifies
notify_high_priority_debtors_unguarded(st, calls, results) ==
  LET high == HighPriorityResults(results)
      sent == send_high_priority_batch(high)
  IN IF messenger
     THEN [stats |-> [st EXCEPT !.messages_sent = @ + 1,
                                !.total_messaged_debtors = @ + sent.count],
           calls |-> Append(calls, sent)]
     ELSE [stats |-> st, calls |-> calls]

\* mutant: one messenger call per qualifying result
RECURSIVE notify_each_result(_, _, _)
notify_each_result(st, calls, results) ==
  LET high == HighPriorityResults(results)
      sent == send_high_priority_batch(<<high[1]>>)
  IN IF messenger /\ high # <<>>
     THEN notify_each_result(
            [st EXCEPT !.messages_sent = @ + 1,
                       !.total_messaged_debtors = @ + sent.count],
            Append(calls, sent), Tail(high))
     ELSE [stats |-> st, calls |-> calls]

\* _notify_high_priority_debtors
notify_high_priority_debtors(st, calls, results) ==
  LET high == HighPriorityResults(results)
      sent == send_high_priority_batch(high)
  IN IF messenger /\ high # <<>>
     THEN [stats |-> [st EXCEPT !.messages_sent = @ + 1,
                                !.total_messaged_debtors = @ + sent.count],
           calls |-> Append(calls, sent)]
     ELSE [stats |-> st, calls |-> calls]

\* the loop of process_batch: pop and process up to batch_size entries
pop_and_process(queue, ocs) ==
  process_loop([heap |-> queue, debtor |-> Unbound, scores |-> risk_scores,
                stats |-> stats, returned |-> score_results,
                results |-> <<>>], ocs, 1)

\* the end of process_batch after its loop left looped
notify_and_return(looped) ==
  LET n == notify_high_priority_debtors(looped.stats, notifier_calls,
                                        looped.results)
  IN [heap |-> looped.heap, results |-> looped.results, scores |-> looped.scores,
      returned |-> looped.returned, stats |-> n.stats, calls |-> n.calls]

\* process_batch(priority_queue) with the configured batch size
process_batch(queue, ocs) == notify_and_return(pop_and_process(queue, ocs))

PreviewLimit == 10

\* mutant: errors_count counts the Error results only
generate_processing_report_results_only(results, batch_count) ==
  [summary |->
     [total_debtors_successfully_processed |-> stats.total_processed,
      high_priority_debtors_successfully_processed |-> stats.high_priority_count,
      batches_processed |-> batch_count,
      errors_count |->
        Cardinality({i \in DOMAIN results : results[i].status = "error"}),
      messages_sent |-> stats.messages_sent,
      total_messaged_debtors |-> stats.total_messaged_debtors],
   detailed_results |-> SubSeq(results, 1, Min(PreviewLimit, Len(results))),
   errors |-> stats.errors]

\* mutant: the report carries every result
generate_processing_report_full_preview(results, batch_count) ==
  [summary |->
     [total_debtors_successfully_processed |-> stats.total_processed,
      high_priority_debtors_successfully_processed |-> stats.high_priority_count,
      batches_processed |-> batch_count,
      errors_count |-> Len(stats.errors),
      messages_sent |-> stats.messages_sent,
      total_messaged_debtors |-> stats.total_messaged_debtors],
   detailed_results |-> results,
   errors |-> stats.errors]

\* _generate_processing_report
generate_processing_report(results, batch_count) ==
  [summary |->
     [total_debtors_successfully_processed |-> stats.total_processed,
      high_priority_debtors_successfully_processed |-> stats.high_priority_count,
      batches_processed |-> batch_count,
      errors_count |-> Len(stats.errors),
      messages_sent |-> stats.messages_sent,
      total_messaged_debtors |-> stats.total_messaged_debtors],
   detailed_results |-> SubSeq(results, 1, Min(PreviewLimit, Len(results))),
   errors |-> stats.errors]

(* ---------------- the state machine ---------------- *)
\* no direct call has been made
NoCall == [fn |-> "none"]
DefaultBatchSize == 100
DefaultThreshold == 500000
NoReport == [summary |-> <<>>, detailed_results |-> <<>>, errors |-> <<>>]
\* batch_number only grows; the model stops counting here (a run with a
\* positive batch size never gets there)
BatchNumberCap == MaxDebtors + 3

Tables ==
  UNION {[1..k -> DebtorRows] : k \in 0..MaxDebtors}

Init ==
  /\ pc = "new"
  /\ batch_size = DefaultBatchSize
  /\ high_priority_threshold = DefaultThreshold
  /\ messenger = FALSE
  /\ debtors \in Tables
  /\ risk_scores \in {{StaleRow(id) : id \in S} : S \in SUBSET (DOMAIN debtors)}
  /\ score_results = [id \in DOMAIN debtors |-> NoResult]
  /\ stats = InitialStats
  /\ priority_queue = <<>>
  /\ built = <<>>
  /\ all_results = <<>>
  /\ batch_results = <<>>
  /\ batch_number = 1
  /\ notifier_calls = <<>>
  /\ report = NoReport
  /\ runs = 0
  /\ stats_at_start = InitialStats
  /\ last_call = NoCall
  /\ sync_records = {}

\* BulkProcessor.__init__: the arguments are stored as given
Construct(b, t, m) ==
  /\ pc = "new"
  /\ pc' = "idle"
  /\ batch_size' = b
  /\ high_priority_threshold' = t
  /\ messenger' = m
  /\ stats' = InitialStats
  /\ UNCHANGED <<debtors, risk_scores, score_results, priority_queue, built,
                 all_results, batch_results, batch_number, notifier_calls,
                 report, runs, stats_at_start>>
  /\ UNCHANGED call_vars

\* process_all_debtors up to its loop: the queue is built over all debtors
BeginRun(fails) ==
  /\ stats_at_start' = stats
  /\ runs' = runs + 1
  /\ \E b \in {build_priority_queue(fails)} :
        /\ priority_queue' = b.tuples
        /\ built' = b.tuples
        /\ risk_scores' = b.scores
        /\ score_results' = b.returned
        /\ stats' = b.stats
  /\ all_results' = <<>>
  /\ batch_number' = 1
  /\ pc' = "batching"
  /\ UNCHANGED <<batch_size, high_priority_threshold, messenger, debtors,
                 batch_results, notifier_calls, report>>
  /\ UNCHANGED call_vars

\* the first process_all_debtors call on a processor
StartRun(fails) ==
  /\ pc = "idle"
  /\ BeginRun(fails)

\* a further process_all_debtors call on the same processor
StartAgain(fails) ==
  /\ pc = "done"
  /\ runs < MaxRuns
  /\ BeginRun(fails)

\* one iteration of the loop of process_all_debtors: one process_batch call
RunBatch(ocs) ==
  /\ pc = "batching"
  /\ priority_queue # <<>>
  /\ \E r \in {process_batch(priority_queue, ocs)} :
        /\ priority_queue' = r.heap
        /\ batch_results' = r.results
        /\ all_results' = all_results \o r.results
        /\ risk_scores' = r.scores
        /\ score_results' = r.returned
        /\ stats' = r.stats
        /\ notifier_calls' = r.calls
  /\ batch_number' = IF batch_number < BatchNumberCap THEN batch_number + 1
                     ELSE batch_number
  /\ UNCHANGED <<pc, batch_size, high_priority_threshold, messenger, debtors,
                 built, report, runs, stats_at_start>>
  /\ UNCHANGED call_vars

\* a process_batch call of the run in which the messenger raises: the
\* exception leaves process_batch and process_all_debtors
RunBatchNotifierFails(ocs) ==
  /\ pc = "batching"
  /\ priority_queue # <<>>
  /\ \E looped \in {pop_and_process(priority_queue, ocs)} :
        /\ messenger
        /\ HighPriorityResults(looped.results) # <<>>
        /\ priority_queue' = looped.heap
        /\ risk_scores' = looped.scores
        /\ score_results' = looped.returned
        /\ stats' = looped.stats
  /\ pc' = "aborted"
  /\ UNCHANGED <<batch_size, high_priority_threshold, messenger, debtors,
                 built, all_results, batch_results, batch_number,
                 notifier_calls, report, runs, stats_at_start>>
  /\ UNCHANGED call_vars

\* mutant: batch_number is reported as it stands (it starts at 1)
FinishCountsFromOne ==
  /\ pc = "batching"
  /\ priority_queue = <<>>
  /\ report' = generate_processing_report(all_results, batch_number)
  /\ pc' = "done"
  /\ UNCHANGED <<batch_size, high_priority_threshold, messenger, debtors,
                 risk_scores, score_results, stats, priority_queue, built,
                 all_results, batch_results, batch_number, notifier_calls,
                 runs, stats_at_start>>
  /\ UNCHANGED call_vars

\* mutant: the report is returned while entries remain in the heap
FinishEarly ==
  /\ pc = "batching"
  /\ report' = generate_processing_report(all_results, batch_number - 1)
  /\ pc' = "done"
  /\ UNCHANGED <<batch_size, high_priority_threshold, messenger, debtors,
                 risk_scores, score_results, stats, priority_queue, built,
                 all_results, batch_results, batch_number, notifier_calls,
                 runs, stats_at_start>>
  /\ UNCHANGED call_vars

\* process_all_debtors after its loop: the report is returned
Finish ==
  /\ pc = "batching"
  /\ priority_queue = <<>>
  /\ report' = generate_processing_report(all_results, batch_number - 1)
  /\ pc' = "done"
  /\ UNCHANGED <<batch_size, high_priority_threshold, messenger, debtors,
                 risk_scores, score_results, stats, priority_queue, built,
                 all_results, batch_results, batch_number, notifier_calls,
                 runs, stats_at_start>>
  /\ UNCHANGED call_vars

\* a caller's own process_batch call on the heap the run has drained
ProcessBatchCall(ocs) ==
  /\ pc = "done"
  /\ \E r \in {process_batch(priority_queue, ocs)} :
        /\ priority_queue' = r.heap
        /\ batch_results' = r.results
        /\ risk_scores' = r.scores
        /\ score_results' = r.returned
        /\ stats' = r.stats
        /\ notifier_calls' = r.calls
  /\ pc' = "called"
  /\ UNCHANGED <<batch_size, high_priority_threshold, messenger, debtors,
                 built, all_results, batch_number, report, runs,
                 stats_at_start>>
  /\ UNCHANGED call_vars

\* the scoring API: GET debtor_risk_score scores the account as it is
ApiRiskScore(id) ==
  /\ \E c \in {calculate_risk_score(id, debtors[id], risk_scores)} :
        /\ risk_scores' = c.table
        /\ score_results' = [score_results EXCEPT ![id] = c.result]
  /\ UNCHANGED <<pc, batch_size, high_priority_threshold, messenger, debtors,
                 stats, priority_queue, built, all_results, batch_results,
                 batch_number, notifier_calls, report, runs, stats_at_start>>
  /\ UNCHANGED call_vars

\* the scoring API: DebtorDetailView.perform_update saves the account's new
\* attributes and scores it
ApiUpdateDebtor(id, row) ==
  /\ debtors' = [debtors EXCEPT ![id] = row]
  /\ \E c \in {calculate_risk_score(id, row, risk_scores)} :
        /\ risk_scores' = c.table
        /\ score_results' = [score_results EXCEPT ![id] = c.result]
  /\ UNCHANGED <<pc, batch_size, high_priority_threshold, messenger, stats,
                 priority_queue, built, all_results, batch_results,
                 batch_number, notifier_calls, report, runs, stats_at_start>>
  /\ UNCHANGED call_vars

Next ==
  \/ \E b \in BatchSizes, t \in Thresholds, m \in BOOLEAN : Construct(b, t, m)
  \/ \E fails \in SUBSET (DOMAIN debtors) : StartRun(fails)
  \/ \E ocs \in [1..BatchCount(batch_size, priority_queue) -> Outcomes] :
        RunBatch(ocs)
  \/ Finish
  \/ \E ocs \in [1..BatchCount(batch_size, priority_queue) -> Outcomes] :
        ProcessBatchCall(ocs)

Spec == Init /\ [][Next]_vars

\* a processor with a messenger that can fail, used for more than one run
ReuseBatchSizes == 1..MaxBatchSize
ReuseOutcomes == {"ok", "fetch_fail"}

InitReuse ==
  /\ pc = "new"
  /\ batch_size = DefaultBatchSize
  /\ high_priority_threshold = DefaultThreshold
  /\ messenger = FALSE
  /\ debtors \in [1..(MaxDebtors - 1) -> DebtorRows]
  /\ risk_scores = {}
  /\ score_results = [id \in DOMAIN debtors |-> NoResult]
  /\ stats = InitialStats
  /\ priority_queue = <<>>
  /\ built = <<>>
  /\ all_results = <<>>
  /\ batch_results = <<>>
  /\ batch_number = 1
  /\ notifier_calls = <<>>
  /\ report = NoReport
  /\ runs = 0
  /\ stats_at_start = InitialStats
  /\ last_call = NoCall
  /\ sync_records = {}

NextReuse ==
  \/ \E b \in ReuseBatchSizes, t \in Thresholds : Construct(b, t, TRUE)
  \/ \E fails \in SUBSET (DOMAIN debtors) : StartRun(fails)
  \/ \E ocs \in [1..BatchCount(batch_size, priority_queue) -> ReuseOutcomes] :
        RunBatch(ocs)
  \/ \E ocs \in [1..BatchCount(batch_size, priority_queue) -> ReuseOutcomes] :
        RunBatchNotifierFails(ocs)
  \/ Finish
  \/ \E fails \in SUBSET (DOMAIN debtors) : StartAgain(fails)

SpecReuse == InitReuse /\ [][NextReuse]_vars

\* a run of a processor interleaved with the scoring API
InitApi ==
  /\ pc = "new"
  /\ batch_size = DefaultBatchSize
  /\ high_priority_threshold = DefaultThreshold
  /\ messenger = FALSE
  /\ debtors \in [1..(MaxDebtors - 1) -> DebtorRows]
  /\ risk_scores \in {{StaleRow(id) : id \in S} : S \in SUBSET (DOMAIN debtors)}
  /\ score_results = [id \in DOMAIN debtors |-> NoResult]
  /\ stats = InitialStats
  /\ priority_queue = <<>>
  /\ built = <<>>
  /\ all_results = <<>>
  /\ batch_results = <<>>
  /\ batch_number = 1
  /\ notifier_calls = <<>>
  /\ report = NoReport
  /\ runs = 0
  /\ stats_at_start = InitialStats
  /\ last_call = NoCall
  /\ sync_records = {}

NextApi ==
  \/ \E b \in ReuseBatchSizes, t \in Thresholds : Construct(b, t, TRUE)
  \/ \E fails \in SUBSET (DOMAIN debtors) : StartRun(fails)
  \/ \E ocs \in [1..BatchCount(batch_size, priority_queue) -> Outcomes] :
        RunBatch(ocs)
  \/ Finish
  \/ \E id \in DOMAIN debtors : ApiRiskScore(id)
  \/ \E id \in DOMAIN debtors, row \in DebtorRows : ApiUpdateDebtor(id, row)

SpecApi == InitApi /\ [][NextApi]_vars

\* runs over more accounts than the report previews: one account fewer than
\* the preview limit, as many, and one more; debts alternate with the id
LongTables ==
  {[id \in 1..n |->
      [total_debt_amount |-> 1 + (id % 2),
       monthly_income |-> 1,
       late_payments_count |-> 0,
       employment_status |-> "UNLISTED",
       contract_type |-> "UNLISTED",
       industry_sector |-> "UNLISTED",
       family_situation |-> "UNLISTED"]] :
     n \in (PreviewLimit - 1)..(PreviewLimit + 1)}
LongBatchSizes == {4, PreviewLimit + 1}
LongOutcomes == {"ok", "result_fail"}

InitLong ==
  /\ pc = "new"
  /\ batch_size = DefaultBatchSize
  /\ high_priority_threshold = DefaultThreshold
  /\ messenger = FALSE
  /\ debtors \in LongTables
  /\ risk_scores = {}
  /\ score_results = [id \in DOMAIN debtors |-> NoResult]
  /\ stats = InitialStats
  /\ priority_queue = <<>>
  /\ built = <<>>
  /\ all_results = <<>>
  /\ batch_results = <<>>
  /\ batch_number = 1
  /\ notifier_calls = <<>>
  /\ report = NoReport
  /\ runs = 0
  /\ stats_at_start = InitialStats
  /\ last_call = NoCall
  /\ sync_records = {}

NextLong ==
  \/ \E b \in LongBatchSizes, t \in Thresholds : Construct(b, t, FALSE)
  \/ \E fails \in {{}, {2}} : StartRun(fails)
  \/ \E ocs \in [1..BatchCount(batch_size, priority_queue) -> LongOutcomes] :
        RunBatch(ocs)
  \/ Finish

SpecLong == InitLong /\ [][NextLong]_vars

\* direct calls of the scorer's functions.  The functions called directly keep
\* no state between calls, so a behaviour makes one call, recorded in last_call
WeightedScores == 0..max_possible_score
Incomes == (0 - 1)..MaxIncome
Debts == 0..(6 * MaxIncome + 1)
LateCounts == 0..MaxLate

\* a Debtor with the given amounts and late-payment count
DebtorWith(debt, income, late) ==
  [total_debt_amount |-> debt, monthly_income |-> income,
   late_payments_count |-> late, employment_status |-> "UNLISTED",
   contract_type |-> "UNLISTED", industry_sector |-> "UNLISTED",
   family_situation |-> "UNLISTED"]

CallGetRiskLevel(w) ==
  /\ last_call' = [fn |-> "get_risk_level", weighted_score |-> w,
                   ret |-> get_risk_level(w)]
  /\ UNCHANGED <<run_vars, sync_records>>

\* a direct call of calculate_risk_score on account 1, which has no RiskScore
\* row or one left by an earlier scoring
CallCalculateRiskScore(debt, income, late, rs) ==
  /\ last_call' = [fn |-> "calculate_risk_score", debtor_id |-> 1,
                   debtor |-> DebtorWith(debt, income, late), table |-> rs,
                   ret |-> calculate_risk_score(1, DebtorWith(debt, income, late), rs)]
  /\ UNCHANGED <<run_vars, sync_records>>

CallNormalizeDebtRatio(debt, income) ==
  /\ last_call' = [fn |-> "normalize_debt_ratio", debt |-> debt,
                   income |-> income,
                   ret |-> normalize_debt_ratio(DebtorWith(debt, income, 0))]
  /\ UNCHANGED <<run_vars, sync_records>>

\* direct calls of the messenger: lists of results, some without debtor_id
MessengerItems ==
  [debtor_id : {NoDebtorId} \cup (1..MaxDebtors), debt_amount : {1}]
MessengerInputs == UNION {[1..k -> MessengerItems] : k \in 0..MaxBatchSize}

CallSendHighPriorityBatch(results) ==
  /\ last_call' = [fn |-> "send_high_priority_batch",
                   ret |-> send_high_priority_batch(results)]
  /\ UNCHANGED <<run_vars, sync_records>>

(* ---------------- partner_sync_service: ReconciliationEngine ---------------- *)
\* tolerance percentages a caller passes: below 0, the two limits, one in
\* between and one above 100
Tolerances == {0 - 1, 0, 50, 100, 200}

Abs(a) == IF a < 0 THEN 0 - a ELSE a

\* balance_matches of one record under tolerance_percent t (t >= 0):
\* abs(external - internal) / internal <= t / 100, in integers.  A negative
\* internal balance makes the quotient negative or zero, which is <= t / 100
balance_matches(internal, external, t) ==
  IF internal = 0 THEN external = 0
  ELSE IF internal < 0 THEN TRUE
  ELSE 100 * Abs(external - internal) <= t * internal

\* mutant: a record whose statuses differ is left as it was
reconciliation_status_pending(record, t) ==
  IF record.internal_status # record.external_status THEN "PENDING"
  ELSE IF balance_matches(record.internal_balance, record.external_balance, t)
  THEN "MATCHED" ELSE "DISCREPANCY"

\* the reconciliation_status one record is saved with
reconciliation_status(record, t) ==
  IF /\ balance_matches(record.internal_balance, record.external_balance, t)
     /\ record.internal_status = record.external_status
  THEN "MATCHED" ELSE "DISCREPANCY"

\* the statuses saved and the summary returned under tolerance t
reconcile_with(records, t) ==
  LET statuses == [i \in 1..Len(records) |-> reconciliation_status(records[i], t)]
  IN [raised |-> FALSE, tolerance_percent |-> t, statuses |-> statuses,
      matched_count |-> Cardinality({i \in DOMAIN statuses : statuses[i] = "MATCHED"}),
      discrepancy_count |->
        Cardinality({i \in DOMAIN statuses : statuses[i] = "DISCREPANCY"}),
      total_processed |-> Len(records)]

\* what a call leaves when it raises ValueError: no record touched
reconcile_raised(tolerance_percent) ==
  [raised |-> TRUE, tolerance_percent |-> tolerance_percent, statuses |-> <<>>,
   matched_count |-> 0, discrepancy_count |-> 0, total_processed |-> 0]

\* reconcile_records: a negative tolerance raises, one above 100 is cut to 100
reconcile_records(records, tolerance_percent) ==
  IF tolerance_percent < 0
  THEN reconcile_raised(tolerance_percent)
  ELSE reconcile_with(records, Min(tolerance_percent, 100))

PartnerSyncRecords ==
  [internal_balance : (0 - 1)..(MaxBalance - 1),
   external_balance : 0..MaxBalance,
   internal_status : {"UNPAID"},
   external_status : {"UNPAID", "PAID"}]
RecordLists == UNION {[1..k -> PartnerSyncRecords] : k \in 0..MaxRecords}

CallReconcileRecords(records, tolerance_percent) ==
  /\ last_call' = [fn |-> "reconcile_records", records |-> records,
                   tolerance_percent |-> tolerance_percent,
                   ret |-> reconcile_records(records, tolerance_percent)]
  /\ UNCHANGED <<run_vars, sync_records>>

CallNormalizePaymentHistory(late) ==
  /\ last_call' = [fn |-> "normalize_payment_history", late_count |-> late,
                   ret |-> normalize_payment_history(DebtorWith(1, 1, late))]
  /\ UNCHANGED <<run_vars, sync_records>>

InitCalls ==
  /\ pc = "new"
  /\ batch_size = DefaultBatchSize
  /\ high_priority_threshold = DefaultThreshold
  /\ messenger = FALSE
  /\ debtors = <<>>
  /\ risk_scores = {}
  /\ score_results = <<>>
  /\ stats = InitialStats
  /\ priority_queue = <<>>
  /\ built = <<>>
  /\ all_results = <<>>
  /\ batch_results = <<>>
  /\ batch_number = 1
  /\ notifier_calls = <<>>
  /\ report = NoReport
  /\ runs = 0
  /\ stats_at_start = InitialStats
  /\ last_call = NoCall
  /\ sync_records = {}

NextCalls ==
  \/ /\ last_call = NoCall
     /\ \E w \in WeightedScores : CallGetRiskLevel(w)
  \/ /\ last_call = NoCall
     /\ \E debt \in Debts, income \in Incomes : CallNormalizeDebtRatio(debt, income)
  \/ /\ last_call = NoCall
     /\ \E late \in LateCounts : CallNormalizePaymentHistory(late)
  \/ /\ last_call = NoCall
     /\ \E debt \in Debts, income \in Incomes, late \in LateCounts, rs \in {{}, {StaleRow(1)}} :
          CallCalculateRiskScore(debt, income, late, rs)
  \/ /\ last_call = NoCall
     /\ \E results \in MessengerInputs : CallSendHighPriorityBatch(results)
  \/ /\ last_call = NoCall
     /\ \E records \in RecordLists, t \in Tolerances : CallReconcileRecords(records, t)

SpecCalls == InitCalls /\ [][NextCalls]_vars

(* ---------------- process_debtors --dry-run ---------------- *)
\* mutant: the preview is the head of the heap's list
nsmallest_heap_order(n, queue) ==
  SubSeq(queue, 1, Min(IF n < 0 THEN 0 ELSE n, Len(queue)))

\* the list without its element at position m
Without(queue, m) == [i \in 1..(Len(queue) - 1) |-> IF i < m THEN queue[i] ELSE queue[i + 1]]

\* the position of the smallest tuple of a non-empty list
MinPos(queue) == CHOOSE m \in DOMAIN queue : \A j \in DOMAIN queue : ~Less(queue[j], queue[m])

\* heapq.nsmallest(n, queue): the first n tuples in ascending order, as a new
\* list; the argument is only read
RECURSIVE nsmallest(_, _)
nsmallest(n, queue) ==
  IF n <= 0 \/ queue = <<>> THEN <<>>
  ELSE <<queue[MinPos(queue)]>> \o nsmallest(n - 1, Without(queue, MinPos(queue)))

\* the values of --top-k
TopKs == (0 - 1)..(MaxDebtors + 1)

\* _handle_dry_run: the queue is built and its top_k entries are previewed
DryRun(top_k, fails) ==
  /\ pc = "idle"
  /\ \E b \in {build_priority_queue(fails)} :
        /\ priority_queue' = b.tuples
        /\ built' = b.tuples
        /\ risk_scores' = b.scores
        /\ score_results' = b.returned
        /\ stats' = b.stats
        /\ last_call' = [fn |-> "handle_dry_run", top_k |-> top_k,
                         preview |-> IF b.tuples = <<>> THEN <<>>
                                     ELSE nsmallest(top_k, b.tuples)]
  /\ pc' = "dry_run_done"
  /\ UNCHANGED <<batch_size, high_priority_threshold, messenger, debtors,
                 all_results, batch_results, batch_number, notifier_calls,
                 report, runs, stats_at_start, sync_records>>

NextDryRun ==
  \/ \E b \in BatchSizes, t \in Thresholds : Construct(b, t, FALSE)
  \/ \E top_k \in TopKs, fails \in SUBSET (DOMAIN debtors) : DryRun(top_k, fails)

SpecDryRun == Init /\ [][NextDryRun]_vars

(* ---------------- partner_sync_service: MessageProcessor ---------------- *)
\* a key the item does not have
MissingKey == "<missing>"

\* the items of a parsed message: balances in whole units; an item may lack
\* internal_status
SyncDebtorIds == 1..2
SyncBalances == {10, 20}
SyncItems ==
  [debtor_id : SyncDebtorIds, internal_balance : SyncBalances,
   internal_status : {"UNPAID", MissingKey}]
SyncMessages == UNION {[1..k -> SyncItems] : k \in 1..2}

\* what the simulator's RNG draws for one item: the balance variance in
\* percent (VARIANCE_MIN..VARIANCE_MAX is -10..10 percent) and the external
\* status (here the internal one; a differing status is among the inputs of
\* the direct reconcile_records calls)
SimDraws == [variance : {0, 10}, external_status : {"UNPAID"}]

\* the simulator's required keys are present
HasRequiredKeys(item) == item.internal_status # MissingKey

\* simulate_external_data for one item under the draw
external_item(item, draw) ==
  [debtor_id |-> item.debtor_id,
   internal_balance |-> item.internal_balance,
   internal_status |-> item.internal_status,
   external_balance |-> (item.internal_balance * (100 + draw.variance)) \div 100,
   external_status |-> draw.external_status]

\* mutant: an existing record keeps its reconciliation_status
sync_update_or_create_keeps_status(table, item) ==
  LET old == {r \in table : r.debtor_id = item.debtor_id}
      row == [debtor_id |-> item.debtor_id,
              internal_balance |-> item.internal_balance,
              external_balance |-> item.external_balance,
              internal_status |-> item.internal_status,
              external_status |-> item.external_status,
              reconciliation_status |->
                IF old = {} THEN "PENDING"
                ELSE (CHOOSE r \in old : TRUE).reconciliation_status]
  IN (table \ old) \cup {row}

\* PartnerSyncRecord.objects.update_or_create(debtor_id=..., defaults=...)
sync_update_or_create(table, item) ==
  LET old == {r \in table : r.debtor_id = item.debtor_id}
      row == [debtor_id |-> item.debtor_id,
              internal_balance |-> item.internal_balance,
              external_balance |-> item.external_balance,
              internal_status |-> item.internal_status,
              external_status |-> item.external_status,
              reconciliation_status |-> "PENDING"]
  IN (table \ old) \cup {row}

\* create_sync_records over the items from position i on: items without the
\* required keys are skipped, the others upserted in order; records is the
\* list returned, by debtor_id
RECURSIVE create_sync_records(_, _, _, _)
create_sync_records(acc, items, draws, i) ==
  IF i > Len(items) THEN acc
  ELSE IF ~HasRequiredKeys(items[i])
       THEN create_sync_records(acc, items, draws, i + 1)
       ELSE create_sync_records(
              [table |-> sync_update_or_create(acc.table,
                                               external_item(items[i], draws[i])),
               records |-> Append(acc.records, items[i].debtor_id)],
              items, draws, i + 1)

\* a create_sync_records call on a parsed message
CreateSyncRecords(items, draws) ==
  /\ \E r \in {create_sync_records([table |-> sync_records, records |-> <<>>],
                                    items, draws, 1)} :
        /\ sync_records' = r.table
        /\ last_call' = [fn |-> "create_sync_records", items |-> items,
                         ret |-> r.records]
  /\ UNCHANGED run_vars

\* tolerances the reconciliation is run with
SyncTolerances == {5, 10}

\* a reconcile_records call on the records of the table
ReconcileSyncRecords(t) ==
  /\ sync_records # {}
  /\ sync_records' =
       {[r EXCEPT !.reconciliation_status = reconciliation_status(r, t)] :
          r \in sync_records}
  /\ last_call' = [fn |-> "reconcile_sync_records", tolerance_percent |-> t]
  /\ UNCHANGED run_vars

NextSync ==
  \/ \E items \in SyncMessages :
       \E draws \in [1..Len(items) -> SimDraws] : CreateSyncRecords(items, draws)
  \/ \E t \in SyncTolerances : ReconcileSyncRecords(t)

SpecSync == InitCalls /\ [][NextSync]_vars


(* ---------------- definitions used by the properties ---------------- *)
Ids(seq) == {seq[i].debtor_id : i \in DOMAIN seq}
QueueIds(queue) == {queue[i][2] : i \in DOMAIN queue}
CountWhere(seq, P(_)) == Cardinality({i \in DOMAIN seq : P(seq[i])})
IsSuccess(r) == r.status = "success"
IsError(r) == r.status = "error"
InRun == pc \in {"batching", "done", "called"}
\* a step of the run's loop: one process_batch call
BatchStep == pc = "batching" /\ pc' = "batching"
CeilDiv(n, b) == (n + b - 1) \div b

\* C1: one process_batch call with a positive batch size b on a heap of
\* length n returns exactly min(b, n) results and leaves n - min(b, n)
\* entries in the heap, whatever the outcome of each account.
C1_BatchReturnsMin ==
  [][(BatchStep /\ batch_size > 0) =>
       LET n == Len(priority_queue)
           m == Min(batch_size, n)
       IN /\ Len(batch_results') = m
          /\ Len(priority_queue') = n - m]_vars

C1_Witness ==
  /\ pc = "batching"
  /\ batch_size = 2
  /\ Len(batch_results) = 2
  /\ Len(priority_queue) = 1
  /\ IsError(batch_results[1])

\* C2: the run of any constructed processor terminates, in the form a finite
\* run refutes: the loop of process_all_debtors ends only on an empty heap, so
\* it terminates iff every iteration (one process_batch call) leaves the heap
\* strictly shorter, and then the run has returned within Len(built) calls.
C2_RunTerminates ==
  [][BatchStep =>
       /\ Len(priority_queue') < Len(priority_queue)
       /\ batch_number' - 1 <= Len(built)]_vars

\* C3: no constructed processor has a batch size that is zero or negative.
C3_NoInvalidBatchSize == pc # "new" => batch_size > 0

\* C4: within a run no account is in two results, an account of the built
\* heap is either still queued or in exactly one result, nothing enters the
\* heap after the build, and at the end every account of the built heap has
\* its result.
C4_AtMostOncePerRun ==
  InRun =>
    /\ \A i, j \in DOMAIN all_results :
         all_results[i].debtor_id = all_results[j].debtor_id => i = j
    /\ Ids(all_results) \cap QueueIds(priority_queue) = {}
    /\ Ids(all_results) \cup QueueIds(priority_queue) = QueueIds(built)
    /\ Len(all_results) + Len(priority_queue) = Len(built)
    /\ (pc = "done" => Ids(all_results) = QueueIds(built))

C4_Witness ==
  /\ pc = "done"
  /\ Len(built) = 3
  /\ Len(all_results) = 3
  /\ batch_number - 1 = 2
  /\ \E i \in DOMAIN all_results : IsError(all_results[i])

\* C5: a failure on one popped account does not stop the batch: the call
\* still pops its full count, every entry popped gets exactly one result, and
\* an account that failed has exactly one Error result and exactly one new
\* ledger record with its id.
C5_FailureIsolated ==
  [][BatchStep =>
       LET new == SubSeq(stats'.errors, Len(stats.errors) + 1,
                         Len(stats'.errors))
           popped == QueueIds(priority_queue) \ QueueIds(priority_queue')
       IN /\ Ids(batch_results') = popped
          /\ Len(batch_results') = Cardinality(popped)
          /\ batch_size > 0 =>
                Cardinality(popped) = Min(batch_size, Len(priority_queue))
          /\ SubSeq(stats'.errors, 1, Len(stats.errors)) = stats.errors
          /\ \A id \in popped :
               LET errs == CountWhere(batch_results',
                             LAMBDA r : IsError(r) /\ r.debtor_id = id)
                   recs == CountWhere(new, LAMBDA e : e.debtor_id = id)
               IN /\ errs = recs
                  /\ errs <= 1
          /\ \A i \in DOMAIN new : new[i].stage = "debtor_processing"]_vars

C5_Witness ==
  /\ pc = "batching"
  /\ Len(batch_results) = 2
  /\ IsError(batch_results[1])
  /\ batch_results[2].debtor_id # batch_results[1].debtor_id
  /\ \E i \in DOMAIN stats.errors :
       /\ stats.errors[i].debtor_id = batch_results[1].debtor_id
       /\ stats.errors[i].stage = "debtor_processing"

\* C6: an account whose priority calculation failed at the build has no heap
\* entry, exactly one priority_calculation record and no result, and the
\* build still handled every other account (each is in the heap or recorded).
C6_BuildFailureExcluded ==
  InRun =>
    \A id \in DOMAIN debtors :
      LET recs == CountWhere(stats.errors,
                    LAMBDA e : e.debtor_id = id
                               /\ e.stage = "priority_calculation")
      IN /\ recs <= 1
         /\ (recs = 1) <=> (id \notin QueueIds(built))
         /\ (recs = 1) => (id \notin Ids(all_results))

C6_Witness ==
  /\ pc = "done"
  /\ Len(debtors) = 3
  /\ QueueIds(built) = {1, 3}
  /\ Ids(all_results) = {1, 3}
  /\ \E i \in DOMAIN stats.errors :
       /\ stats.errors[i].debtor_id = 2
       /\ stats.errors[i].stage = "priority_calculation"

\* the results handed to the messenger so far, in the order of the calls
RECURSIVE Handed(_)
Handed(calls) ==
  IF calls = <<>> THEN <<>> ELSE calls[1].input \o Handed(Tail(calls))

OnlyHighSuccessHanded ==
  \A i \in DOMAIN Handed(notifier_calls) :
    LET r == Handed(notifier_calls)[i]
    IN IsSuccess(r) /\ r.priority_score > high_priority_threshold

AllHighSuccessHanded ==
  \A i \in DOMAIN all_results :
    LET r == all_results[i]
    IN (IsSuccess(r) /\ r.priority_score > high_priority_threshold)
         => \E k \in DOMAIN Handed(notifier_calls) :
               Handed(notifier_calls)[k] = r

C8_StatsCountSuccesses ==
  /\ stats.total_processed = CountWhere(all_results, IsSuccess)
  /\ stats.high_priority_count
       = CountWhere(all_results,
           LAMBDA r : IsSuccess(r)
                      /\ r.priority_score > high_priority_threshold)

\* the heap-time priorities in the order heappop yields them
RECURSIVE PopAll(_)
PopAll(h) ==
  IF h = <<>> THEN <<>>
  ELSE LET p == HeapPop(h) IN <<0 - p.item[1]>> \o PopAll(p.heap)

\* C9: popping every entry of a built heap yields the heap-time priorities in
\* non-increasing order.
C9_PopOrderNonIncreasing ==
  InRun =>
    LET ps == PopAll(built)
    IN \A i \in 1..(Len(ps) - 1) : ps[i] >= ps[i + 1]

\* the heap-time priority of account id, read from its entry of the built heap
BuiltPriority(id) ==
  LET i == CHOOSE k \in DOMAIN built : built[k][2] = id IN 0 - built[i][1]

C9_Witness ==
  /\ pc = "batching"
  /\ QueueIds(built) = {1, 2, 3}
  /\ BuiltPriority(1) < BuiltPriority(2)
  /\ BuiltPriority(2) < BuiltPriority(3)

\* C10: a run over a heap of n entries with a positive batch size b reports
\* ceil(n / b) batches, and every batch after which entries remain has
\* exactly b results.
C10_BatchCount ==
  /\ []((pc = "done" /\ batch_size > 0) =>
          report.summary.batches_processed = CeilDiv(Len(built), batch_size))
  /\ [][(BatchStep /\ batch_size > 0 /\ priority_queue' # <<>>) =>
          Len(batch_results') = batch_size]_vars

C10_Witness ==
  /\ pc = "done"
  /\ batch_size = 2
  /\ Len(built) = 3
  /\ report.summary.batches_processed = 2
  /\ Len(batch_results) = 1

\* a caller's process_batch call on the drained heap
EmptyCallStep == pc = "done" /\ pc' = "called"

\* C11: process_batch on an empty heap returns an empty list and leaves the
\* heap, the counters, the ErrorLedger, the notifier counters and the
\* RiskScore table as they were; the Notifier is not called.
C11_EmptyHeapCallIsNoop ==
  [][(EmptyCallStep /\ priority_queue = <<>>) =>
       /\ batch_results' = <<>>
       /\ priority_queue' = <<>>
       /\ stats' = stats
       /\ notifier_calls' = notifier_calls
       /\ risk_scores' = risk_scores]_vars

C11_Witness ==
  /\ pc = "called"
  /\ messenger
  /\ batch_results = <<>>
  /\ Len(all_results) = 3
  /\ stats.messages_sent >= 1
  /\ Len(stats.errors) >= 1

\* the priorities the claim allows in an Error result of account id: a score
\* stored for that account (the row it had, or its fresh score) times its own
\* debt, or the priority of its heap entry
OwnPriorities(id) ==
  {StaleScore * debtors[id].total_debt_amount,
   weighted_score(debtors[id]) * debtors[id].total_debt_amount,
   BuiltPriority(id)}

\* C12: the priority_score of an Error result is computed from the failed
\* account's own stored score and debt, or is its own heap-time priority.
C12_ErrorPriorityOwnAccount ==
  InRun =>
    \A i \in DOMAIN all_results :
      IsError(all_results[i]) =>
        all_results[i].priority_score \in OwnPriorities(all_results[i].debtor_id)

\* C14: every popped account yields a result whatever fails for it, and at
\* the report errors_count is the number of ledger records, which is the
\* number of accounts the build left out plus the number of Error results;
\* the report carries the ledger itself.
C14_ErrorsCountAddsUp ==
  /\ InRun => Len(all_results) + Len(priority_queue) = Len(built)
  /\ pc = "done" =>
    /\ report.summary.errors_count = Len(stats.errors)
    /\ report.errors = stats.errors
    /\ Len(stats.errors)
         = (Len(debtors) - Len(built)) + CountWhere(all_results, IsError)
    /\ CountWhere(stats.errors, LAMBDA e : e.stage = "priority_calculation")
         = Len(debtors) - Len(built)

C14_Witness ==
  /\ pc = "done"
  /\ Len(debtors) = 3
  /\ Len(built) = 2
  /\ CountWhere(all_results, IsError) = 1
  /\ report.summary.errors_count = 2

\* the results of a list that qualify for the Notifier, in the list's order
Qualifying(results) ==
  SelectSeq(results,
            LAMBDA r : IsSuccess(r) /\ r.priority_score > high_priority_threshold)

\* C17: a process_batch call makes at most one Notifier call; the call carries
\* the qualifying results of the whole batch in processing order, and
\* messages_sent grows by one and total_messaged_debtors by the count returned;
\* without a call both counters stay.
C17_OneNotifierCallPerBatch ==
  [][(BatchStep \/ EmptyCallStep) =>
       LET k == Len(notifier_calls)
       IN \/ /\ notifier_calls' = notifier_calls
             /\ stats'.messages_sent = stats.messages_sent
             /\ stats'.total_messaged_debtors = stats.total_messaged_debtors
          \/ /\ Len(notifier_calls') = k + 1
             /\ SubSeq(notifier_calls', 1, k) = notifier_calls
             /\ notifier_calls'[k + 1].input = Qualifying(batch_results')
             /\ stats'.messages_sent = stats.messages_sent + 1
             /\ stats'.total_messaged_debtors
                  = stats.total_messaged_debtors + notifier_calls'[k + 1].count]_vars

C17_Witness ==
  /\ pc = "batching"
  /\ Len(notifier_calls) = 1
  /\ Len(notifier_calls[1].input) = 2
  /\ notifier_calls[1].input[1].debtor_id = batch_results[1].debtor_id
  /\ notifier_calls[1].input[2].debtor_id = batch_results[2].debtor_id
  /\ stats.messages_sent = 1
  /\ stats.total_messaged_debtors = 2

\* the account ids of the records of a stage, in ledger order
RECURSIVE StageIds(_, _)
StageIds(errors, stage) ==
  IF errors = <<>> THEN <<>>
  ELSE (IF errors[1].stage = stage THEN <<errors[1].debtor_id>> ELSE <<>>)
       \o StageIds(Tail(errors), stage)

RECURSIVE ErrorIds(_)
ErrorIds(results) ==
  IF results = <<>> THEN <<>>
  ELSE (IF IsError(results[1]) THEN <<results[1].debtor_id>> ELSE <<>>)
       \o ErrorIds(Tail(results))

\* C18: within a run the ErrorLedger only grows at its end, its processing
\* records are in the order the Error results were produced, and no
\* priority_calculation record follows a processing record.
C18_LedgerAppendOnly ==
  /\ [][SubSeq(stats'.errors, 1, Len(stats.errors)) = stats.errors]_vars
  /\ [](InRun =>
          /\ StageIds(stats.errors, "debtor_processing") = ErrorIds(all_results)
          /\ \A i, j \in DOMAIN stats.errors :
               (stats.errors[i].stage = "debtor_processing"
                /\ stats.errors[j].stage = "priority_calculation") => j < i)

C18_Witness ==
  /\ pc = "done"
  /\ Len(stats.errors) = 3
  /\ stats.errors[1].stage = "priority_calculation"
  /\ stats.errors[2].stage = "debtor_processing"
  /\ stats.errors[3].stage = "debtor_processing"
  /\ stats.errors[2].debtor_id # stats.errors[3].debtor_id

\* C13: a report describes only the run that returned it: its counters are
\* what the run added to the statistics it started from, and its errors list
\* holds the records added since the run began.
C13_ReportDescribesOwnRun ==
  pc = "done" =>
    LET s == report.summary
        n0 == Len(stats_at_start.errors)
    IN /\ s.total_debtors_successfully_processed
            = stats.total_processed - stats_at_start.total_processed
       /\ s.high_priority_debtors_successfully_processed
            = stats.high_priority_count - stats_at_start.high_priority_count
       /\ s.errors_count = Len(stats.errors) - n0
       /\ report.errors = SubSeq(stats.errors, n0 + 1, Len(stats.errors))
       /\ s.messages_sent = stats.messages_sent - stats_at_start.messages_sent
       /\ s.total_messaged_debtors
            = stats.total_messaged_debtors - stats_at_start.total_messaged_debtors

PopStep == BatchStep /\ Len(priority_queue') < Len(priority_queue)

\* C16: a Success result carries the score computed from the account's
\* attributes as they are when it is popped, and that score times the debt at
\* that time, whatever priority the heap entry had.
C16_SuccessReportsFresh ==
  [][PopStep =>
       \A i \in DOMAIN batch_results' :
         IsSuccess(batch_results'[i]) =>
           LET r == batch_results'[i]
               d == debtors[r.debtor_id]
           IN /\ r.risk_score = weighted_score(d)
              /\ r.priority_score = weighted_score(d) * d.total_debt_amount
              /\ r.debt_amount = d.total_debt_amount]_vars

\* a Success result of an account whose heap entry was built from other
\* attributes than it has now, and one built from a stored score that the
\* fresh score replaced
C16_Witness ==
  /\ InRun
  /\ \E i \in DOMAIN all_results :
       LET r == all_results[i]
       IN /\ IsSuccess(r)
          /\ debtors[r.debtor_id].total_debt_amount = 1
          /\ BuiltPriority(r.debtor_id)
               = weighted_score([debtors[r.debtor_id]
                                   EXCEPT !.total_debt_amount = 2]) * 2
          /\ r.priority_score = weighted_score(debtors[r.debtor_id])
  /\ \E i \in DOMAIN all_results :
       LET r == all_results[i]
       IN /\ IsSuccess(r)
          /\ BuiltPriority(r.debtor_id)
               = StaleScore * debtors[r.debtor_id].total_debt_amount
          /\ r.priority_score # BuiltPriority(r.debtor_id)

\* C19: an account has at most one RiskScore row; once a scoring call on it
\* has returned, the row holds the total_score, risk_level and
\* factor_breakdown of the latest call; a call returns created exactly when
\* the account had no row before it.
C19_UpsertKeepsLatest ==
  /\ [](\A id \in DOMAIN debtors :
          /\ Cardinality(RowsOf(risk_scores, id)) <= 1
          /\ score_results[id].called =>
               \E r \in RowsOf(risk_scores, id) :
                 /\ r.total_score = score_results[id].total_score
                 /\ r.risk_level = score_results[id].risk_level
                 /\ r.factor_breakdown = score_results[id].normalized_scores)
  /\ [][\A id \in DOMAIN debtors :
          score_results'[id] # score_results[id] =>
            (score_results'[id].created <=> RowsOf(risk_scores, id) = {})]_vars

\* an account scored at least twice, with a stored row of other attributes
\* overwritten, and an account whose row a call created
C19_Witness ==
  /\ \E id \in DOMAIN debtors :
       /\ score_results[id].called
       /\ ~score_results[id].created
       /\ StoredScore(risk_scores, id) # StaleScore
  /\ \E id \in DOMAIN debtors :
       /\ score_results[id].called
       /\ score_results[id].created

\* the attributes the scorer reads
ScoringAttributes(d) ==
  <<d.total_debt_amount, d.monthly_income, d.late_payments_count,
    d.employment_status, d.contract_type, d.industry_sector,
    d.family_situation>>

\* C20: two accounts with the same scoring attributes have, once scored, the
\* same total_score, risk_level and factor breakdown, whatever their ids, the
\* rows they had before and the order of the calls.
C20_ScoringDeterministic ==
  \A a, b \in DOMAIN debtors :
    (/\ score_results[a].called
     /\ score_results[b].called
     /\ ScoringAttributes(debtors[a]) = ScoringAttributes(debtors[b])) =>
      /\ score_results[a].total_score = score_results[b].total_score
      /\ score_results[a].risk_level = score_results[b].risk_level
      /\ score_results[a].normalized_scores = score_results[b].normalized_scores
      /\ score_results[a].total_score = weighted_score(debtors[a])
      /\ StoredScore(risk_scores, a) = StoredScore(risk_scores, b)

\* two accounts with the same attributes, one scored over a row it had and
\* one scored with none
C20_Witness ==
  \E a, b \in DOMAIN debtors :
    /\ a # b
    /\ ScoringAttributes(debtors[a]) = ScoringAttributes(debtors[b])
    /\ score_results[a].called /\ score_results[a].created
    /\ score_results[b].called /\ ~score_results[b].created

(* ---------------- the scorer's functions ---------------- *)
\* C21: the theoretical maximum is 450, and get_risk_level gives LOW up to
\* 135, MEDIUM above 135 up to 270, HIGH above 270 up to 360 and CRITICAL
\* above 360; 135, 270 and 360 themselves give LOW, MEDIUM and HIGH.
C21_RiskLevelBuckets ==
  last_call.fn = "get_risk_level" =>
    LET w == last_call.weighted_score
        level == last_call.ret
    IN /\ max_possible_score = 450
       /\ w <= 135 => level = "LOW"
       /\ (135 < w /\ w <= 270) => level = "MEDIUM"
       /\ (270 < w /\ w <= 360) => level = "HIGH"
       /\ 360 < w => level = "CRITICAL"

C21_Witness ==
  /\ last_call.fn = "get_risk_level"
  /\ last_call.weighted_score = 270
  /\ last_call.ret = "MEDIUM"

\* C29: normalize_debt_ratio gives 10 for an income of zero or less, and
\* otherwise 2 for debt <= income, 5 up to 3 * income, 7 up to 6 * income and
\* 10 above.
C29_DebtRatioBuckets ==
  last_call.fn = "normalize_debt_ratio" =>
    LET debt == last_call.debt
        income == last_call.income
        score == last_call.ret
    IN /\ income <= 0 => score = 10
       /\ (income > 0 /\ debt <= income) => score = 2
       /\ (income > 0 /\ income < debt /\ debt <= 3 * income) => score = 5
       /\ (income > 0 /\ 3 * income < debt /\ debt <= 6 * income) => score = 7
       /\ (income > 0 /\ debt > 6 * income) => score = 10

C29_Witness ==
  /\ last_call.fn = "normalize_debt_ratio"
  /\ last_call.income = 2
  /\ last_call.debt = 6
  /\ last_call.ret = 5

\* C30: normalize_payment_history gives 1 for no late payment, 4 for 1 or 2,
\* 7 for 3 to 5 and 10 for 6 or more.
C30_PaymentHistoryBuckets ==
  last_call.fn = "normalize_payment_history" =>
    LET late == last_call.late_count
        score == last_call.ret
    IN /\ late = 0 => score = 1
       /\ late \in {1, 2} => score = 4
       /\ late \in {3, 4, 5} => score = 7
       /\ late >= 6 => score = 10

C30_Witness ==
  /\ last_call.fn = "normalize_payment_history"
  /\ last_call.late_count = 5
  /\ last_call.ret = 7

(* ---------------- the messenger ---------------- *)
\* C22: send_high_priority_batch on an empty list returns count 0 and does
\* not call send_to_sqs.
C22_EmptyInputNotSent ==
  (last_call.fn = "send_high_priority_batch" /\ last_call.ret.input = <<>>) =>
    /\ last_call.ret.count = 0
    /\ ~last_call.ret.sent

C22_Witness ==
  /\ last_call.fn = "send_high_priority_batch"
  /\ last_call.ret.input = <<>>
  /\ last_call.ret.count = 0

\* C23: the count send_high_priority_batch returns is the number of items in
\* the payload handed to send_to_sqs, also when entries were filtered out.
C23_CountIsPayloadSize ==
  last_call.fn = "send_high_priority_batch" =>
    last_call.ret.count = Len(last_call.ret.payload)

(* ---------------- reconciliation ---------------- *)
\* C27: reconcile_records never fails because of the tolerance: a tolerance
\* below 0 or above 100 is replaced by the nearest bound and every record is
\* still reconciled.
C27_ToleranceClamped ==
  last_call.fn = "reconcile_records" =>
    /\ ~last_call.ret.raised
    /\ last_call.ret.tolerance_percent =
         (IF last_call.tolerance_percent < 0 THEN 0
          ELSE Min(last_call.tolerance_percent, 100))
    /\ last_call.ret.total_processed = Len(last_call.records)
    /\ Len(last_call.ret.statuses) = Len(last_call.records)

(* ---------------- the phases of a run ---------------- *)
\* the entries of a heap, as a set
Entries(queue) == {queue[i] : i \in DOMAIN queue}

\* the accounts popped by a step
Popped == QueueIds(priority_queue) \ QueueIds(priority_queue')

\* the phases in order: constructed, queue built, batches, report
PhaseOrder ==
  {<<"new", "idle">>, <<"idle", "batching">>, <<"batching", "done">>,
   <<"done", "called">>}

\* C24: a run goes idle, queue build, batches, done: the queue is built once,
\* before the first batch; once batches have started no account is scored
\* for queue building (only accounts popped by the batch are scored); the
\* heap never grows during the batch phase; and the report is produced only
\* once the heap is empty.
C24_RunPhases ==
  [][/\ pc' # pc => <<pc, pc'>> \in PhaseOrder
     /\ built' # built => (pc = "idle" /\ pc' = "batching")
     /\ (pc = "idle" /\ pc' = "batching") =>
          (all_results' = <<>> /\ priority_queue' = built')
     /\ pc = "batching" =>
          /\ Len(priority_queue') <= Len(priority_queue)
          /\ \A id \in DOMAIN debtors :
               (\/ score_results'[id] # score_results[id]
                \/ RowsOf(risk_scores', id) # RowsOf(risk_scores, id))
                 => id \in Popped
     /\ report' # report =>
          (pc = "batching" /\ pc' = "done" /\ priority_queue = <<>>)]_vars

C24_Witness ==
  /\ pc = "done"
  /\ batch_size = 1
  /\ Len(built) = MaxDebtors
  /\ priority_queue = <<>>
  /\ report.summary.batches_processed = MaxDebtors

\* C25: the heap build_priority_queue returns holds at most one entry per
\* account, and batch extraction only removes entries: every entry of the
\* heap is an entry the build put there, with the priority it was given, and
\* no step after the build adds one.
C25_HeapOnlyShrinks ==
  /\ [](InRun =>
          /\ Cardinality(QueueIds(built)) = Len(built)
          /\ Cardinality(QueueIds(priority_queue)) = Len(priority_queue)
          /\ Entries(priority_queue) \subseteq Entries(built))
  /\ [][InRun => Entries(priority_queue') \subseteq Entries(priority_queue)]_vars

C25_Witness ==
  /\ pc = "batching"
  /\ batch_size = 2
  /\ Len(built) = MaxDebtors
  /\ Len(priority_queue) = MaxDebtors - 2

(* ---------------- queue build and stored scores ---------------- *)
\* the step of process_all_debtors that builds the queue
BuildStep == pc = "idle" /\ pc' = "batching"

\* the priority of account id's entry of a heap
PriorityIn(queue, id) ==
  LET i == CHOOSE k \in DOMAIN queue : queue[k][2] = id IN 0 - queue[i][1]

\* C28: during queue build an account with a stored RiskScore is not scored
\* again: its priority is the stored total_score times its debt and its
\* RiskScore row is unchanged; an account without one is scored once, which
\* creates its RiskScore.
C28_BuildUsesStoredScore ==
  [][BuildStep =>
       \A id \in QueueIds(built') :
         IF RowsOf(risk_scores, id) # {}
         THEN /\ PriorityIn(built', id) =
                   StoredScore(risk_scores, id) * debtors[id].total_debt_amount
              /\ RowsOf(risk_scores', id) = RowsOf(risk_scores, id)
              /\ score_results'[id] = score_results[id]
         ELSE /\ score_results'[id].called
              /\ score_results'[id].created
              /\ Cardinality(RowsOf(risk_scores', id)) = 1
              /\ StoredScore(risk_scores', id) = score_results'[id].total_score
              /\ PriorityIn(built', id) =
                   score_results'[id].total_score * debtors[id].total_debt_amount]_vars

C28_Witness ==
  /\ pc = "batching"
  /\ Len(priority_queue) = Len(built)
  /\ \E id \in QueueIds(built) :
       /\ ~score_results[id].called
       /\ StoredScore(risk_scores, id) = StaleScore
       /\ BuiltPriority(id) = StaleScore * debtors[id].total_debt_amount
  /\ \E id \in QueueIds(built) : score_results[id].created

(* ---------------- the report's preview ---------------- *)
\* the accounts of a heap in the order successive pops return them
RECURSIVE PopOrder(_)
PopOrder(h) ==
  IF h = <<>> THEN <<>>
  ELSE LET p == HeapPop(h) IN <<p.item[2]>> \o PopOrder(p.heap)

\* C26: the report's preview is the first min(10, N) of the N results of the
\* run, the results being in the order the accounts were processed (pop
\* order), and the report's errors list is the whole ErrorLedger.
C26_PreviewFirstTen ==
  pc = "done" =>
    /\ report.detailed_results =
         (IF Len(all_results) <= 10 THEN all_results
          ELSE SubSeq(all_results, 1, 10))
    /\ [i \in DOMAIN all_results |-> all_results[i].debtor_id] = PopOrder(built)
    /\ report.errors = stats.errors
    /\ Len(report.errors)
         = (Len(debtors) - Len(built)) + CountWhere(all_results, IsError)

C26_Witness ==
  /\ pc = "done"
  /\ Len(all_results) = 11
  /\ Len(report.detailed_results) = 10
  /\ report.detailed_results[10] = all_results[10]
  /\ Len(report.errors) = 11

(* ---------------- the weighted score ---------------- *)
\* the level of a total score: its percentage of 450 against 30, 60 and 80
LevelOf(total) ==
  IF total * 100 <= 30 * 450 THEN "LOW"
  ELSE IF total * 100 <= 60 * 450 THEN "MEDIUM"
  ELSE IF total * 100 <= 80 * 450 THEN "HIGH"
  ELSE "CRITICAL"

\* C31: total_score is 9*debt_ratio + 9*payment_history + 8*employment_status
\* + 7*contract_type + 6*industry_sector + 6*family_situation over the factor
\* values of the breakdown, the breakdown has exactly these six factors, and
\* the risk_level returned and stored is the level of that total_score.
C31_WeightedTotal ==
  last_call.fn = "calculate_risk_score" =>
    LET r == last_call.ret.result
        n == r.normalized_scores
        rows == RowsOf(last_call.ret.table, last_call.debtor_id)
    IN /\ DOMAIN n = {"debt_ratio", "payment_history", "employment_status",
                      "contract_type", "industry_sector", "family_situation"}
       /\ r.total_score = 9 * n.debt_ratio + 9 * n.payment_history
                          + 8 * n.employment_status + 7 * n.contract_type
                          + 6 * n.industry_sector + 6 * n.family_situation
       /\ r.risk_level = LevelOf(r.total_score)
       /\ rows = {[debtor_id |-> last_call.debtor_id,
                   total_score |-> r.total_score,
                   risk_level |-> LevelOf(r.total_score),
                   factor_breakdown |-> n]}

C31_Witness ==
  /\ last_call.fn = "calculate_risk_score"
  /\ last_call.table # {}
  /\ last_call.ret.result.normalized_scores.debt_ratio = 7
  /\ last_call.ret.result.normalized_scores.payment_history = 10
  /\ last_call.ret.result.total_score = 288
  /\ last_call.ret.result.risk_level = "HIGH"

(* ---------------- what a run writes ---------------- *)
\* C32: scoring, queue building and batch processing change no attribute of
\* an account; the only records a run writes are RiskScore rows, and each
\* write touches only the row of the account being scored (an account given
\* its first score during queue build, or an account popped by the batch).
C32_RunWritesOnlyOwnRiskScore ==
  [][/\ debtors' = debtors
     /\ \A r \in risk_scores' : r.debtor_id \in DOMAIN debtors
     /\ \A id \in DOMAIN debtors :
          RowsOf(risk_scores', id) # RowsOf(risk_scores, id) =>
            \/ /\ BuildStep
               /\ id \in QueueIds(built')
               /\ RowsOf(risk_scores, id) = {}
            \/ /\ pc = "batching"
               /\ id \in Popped
               /\ score_results'[id].called]_vars

C32_Witness ==
  /\ pc = "done"
  /\ \E id \in DOMAIN debtors :
       /\ RowsOf(risk_scores, id) = {StaleRow(id)}
       /\ id \in Ids(all_results)
  /\ \E id \in DOMAIN debtors :
       /\ score_results[id].called
       /\ ~score_results[id].created
       /\ StoredScore(risk_scores, id) = weighted_score(debtors[id])

(* ---------------- reconciliation of records ---------------- *)
\* the external balance is within plus or minus t percent of the internal one
WithinTolerance(internal, external, t) ==
  100 * Abs(external - internal) <= t * Abs(internal)

SyncRowsOf(table, id) == {r \in table : r.debtor_id = id}

\* the positions of a message whose item is for debtor_id id
ItemsFor(items, id) == {i \in DOMAIN items : items[i].debtor_id = id}

\* those of them that carry the required keys
AcceptedFor(items, id) == {i \in ItemsFor(items, id) : HasRequiredKeys(items[i])}

Last(S) == CHOOSE i \in S : \A j \in S : j <= i

\* a step that is a create_sync_records call
CreateStep == last_call'.fn = "create_sync_records"

\* the record of id after the call is the item at position i, PENDING
OverwrittenBy(items, i, id) ==
  \E r \in sync_records' :
    /\ SyncRowsOf(sync_records', id) = {r}
    /\ r.internal_balance = items[i].internal_balance
    /\ r.internal_status = items[i].internal_status
    /\ r.external_balance \in
         {(items[i].internal_balance * (100 + v)) \div 100 : v \in {0, 10}}
    /\ r.reconciliation_status = "PENDING"

C36_DryRunLeavesHeap ==
  pc = "dry_run_done" =>
    LET preview == last_call.preview
        k == IF last_call.top_k < 0 THEN 0 ELSE last_call.top_k
    IN /\ priority_queue = built
       /\ Len(priority_queue) + Len(StageIds(stats.errors, "priority_calculation"))
            = Len(debtors)
       /\ Len(preview) = Min(k, Len(priority_queue))
       /\ \A i \in DOMAIN preview : preview[i] \in Entries(priority_queue)
       /\ \A i \in 1..(Len(preview) - 1) : 0 - preview[i][1] >= 0 - preview[i + 1][1]
       /\ \A e \in Entries(priority_queue) \ {preview[i] : i \in DOMAIN preview} :
            \A i \in DOMAIN preview : 0 - preview[i][1] >= 0 - e[1]
       /\ Cardinality({preview[i] : i \in DOMAIN preview}) = Len(preview)
       /\ all_results = <<>>
       /\ batch_results = <<>>
       /\ report = NoReport
       /\ notifier_calls = <<>>
       /\ stats.total_processed = 0
       /\ stats.high_priority_count = 0
       /\ stats.messages_sent = 0
       /\ stats.total_messaged_debtors = 0

C36_Witness ==
  /\ pc = "dry_run_done"
  /\ last_call.top_k = 2
  /\ Len(priority_queue) = 3
  /\ Len(last_call.preview) = 2
  /\ last_call.preview[1] # priority_queue[1]
       \/ last_call.preview[2] # priority_queue[2]

(* ---------------- every account accounted for ---------------- *)
\* the ledger records the current run added
RunErrors == SubSeq(stats.errors, Len(stats_at_start.errors) + 1, Len(stats.errors))

\* the accounts whose priority calculation failed in the current run
BuildFailures == StageIds(RunErrors, "priority_calculation")

\* C37: in a run over N distinct accounts the Success results, the Error
\* results and the priority_calculation ledger records add up to N: every
\* account is accounted for exactly once, as a success, a processing error
\* or a build failure.
C37_EveryAccountAccounted ==
  pc = "done" =>
    /\ CountWhere(all_results, IsSuccess) + CountWhere(all_results, IsError)
         + Len(BuildFailures) = Len(debtors)
    /\ \A id \in DOMAIN debtors :
         Cardinality({i \in DOMAIN all_results : all_results[i].debtor_id = id})
           + Cardinality({i \in DOMAIN BuildFailures : BuildFailures[i] = id}) = 1

C37_Witness ==
  /\ pc = "done"
  /\ Len(debtors) = 3
  /\ CountWhere(all_results, IsSuccess) = 1
  /\ CountWhere(all_results, IsError) = 1
  /\ Len(BuildFailures) = 1

(* ---------------- high-priority accounts and the Notifier ---------------- *)
\* C38: with a messenger configured, at the end of every run the summary's
\* total_messaged_debtors equals its high-priority count: every account
\* counted as high priority was handed to the Notifier exactly once, and
\* none was handed over without being counted.
C38_MessagedEqualsHighPriority ==
  (pc = "done" /\ messenger) =>
    /\ report.summary.total_messaged_debtors
         = report.summary.high_priority_debtors_successfully_processed
    /\ Len(Handed(notifier_calls)) = stats.high_priority_count
    /\ Cardinality(Ids(Handed(notifier_calls))) = Len(Handed(notifier_calls))

\* C39: without a messenger no notification is sent during a run, whatever
\* the priorities; the report shows messages_sent = 0 and
\* total_messaged_debtors = 0, and the high-priority count is still
\* maintained: every batch adds to it at least the Success results above the
\* threshold and at most the accounts the batch processed, and exactly the
\* Success results above the threshold when every result is a Success.
C39_NoMessengerNoNotification ==
  /\ [](~messenger =>
          /\ notifier_calls = <<>>
          /\ stats.messages_sent = 0
          /\ stats.total_messaged_debtors = 0)
  /\ []((pc = "done" /\ ~messenger) =>
          /\ report.summary.messages_sent = 0
          /\ report.summary.total_messaged_debtors = 0
          /\ report.summary.high_priority_debtors_successfully_processed
               = stats.high_priority_count
          /\ stats.high_priority_count >= Len(Qualifying(all_results)))
  /\ [][(PopStep /\ ~messenger) =>
          LET added == stats'.high_priority_count - stats.high_priority_count
          IN /\ added >= Len(Qualifying(batch_results'))
             /\ added <= stats'.total_processed - stats.total_processed
             /\ (\A i \in DOMAIN batch_results' : IsSuccess(batch_results'[i]))
                  => added = Len(Qualifying(batch_results'))]_vars

C39_Witness ==
  /\ pc = "done"
  /\ ~messenger
  /\ Len(all_results) = 3
  /\ Len(Qualifying(all_results)) = 2
  /\ \A i \in DOMAIN all_results : IsSuccess(all_results[i])
  /\ report.summary.high_priority_debtors_successfully_processed = 2
  /\ report.summary.messages_sent = 0

(* ---------------- heap entries and stored scores ---------------- *)
\* C40: when build_priority_queue returns, every account with an entry in the
\* heap has a stored RiskScore, exactly one, and the entry's priority is that
\* stored total_score times the account's debt as read by the build.
C40_HeapEntryHasStoredScore ==
  [][BuildStep =>
       \A id \in QueueIds(built') :
         /\ Cardinality(RowsOf(risk_scores', id)) = 1
         /\ StoredScore(risk_scores', id) # NoScore
         /\ PriorityIn(built', id) =
              StoredScore(risk_scores', id) * debtors[id].total_debt_amount]_vars

C40_Witness ==
  /\ pc = "batching"
  /\ Len(built) = MaxDebtors
  /\ Len(priority_queue) = Len(built)
  /\ \A id \in QueueIds(built) :
       /\ RowsOf(risk_scores, id) # {}
       /\ PriorityIn(built, id) =
            StoredScore(risk_scores, id) * debtors[id].total_debt_amount
  /\ \E id \in QueueIds(built) : PriorityIn(built, id) > 0
  /\ \E id \in QueueIds(built) : score_results[id].created
  /\ \E id \in QueueIds(built) : ~score_results[id].called
====
